---- MODULE Spec2Model ----
(***************************************************************************)
(* Model of lib/crypto/crypto.go: the private-key codec (toECDSA and its   *)
(* entry points ToECDSA, ToECDSAUnsafe, HexToECDSA, LoadECDSA, SaveECDSA,  *)
(* FromECDSA), the public-key projection FromECDSAPub, the address         *)
(* derivations PubkeyToAddress and CreateAddress, and the signature        *)
(* validator ValidateSignatureValues.                                      *)
(*                                                                         *)
(* Scale.  TLC's integers are 32 bits wide, so the 256-bit curve is        *)
(* replaced by the curve of the same equation, y^2 = x^3 + 7, over the     *)
(* field of 43 elements.  Its group has prime order 31 and cofactor 1, and *)
(* 31 < 43 < 2^6 as N < P < 2^256 on secp256k1.  A byte carries 2 bits     *)
(* instead of 8 and a hexadecimal digit 1 bit instead of 4 (two digits per *)
(* byte, as in the source), so a scalar is 3 bytes wide instead of 32 and  *)
(* a key file holds 6 digits instead of 64.  Every comparison, length test *)
(* and conversion is the source's, taken at this width.  The digest and    *)
(* address widths (32 and 20 bytes) are kept.                              *)
(***************************************************************************)
EXTENDS Integers, Sequences, FiniteSets, TLC

VARIABLES
    call,      \* the call being made: its operation, arguments and, once done, result
    file,      \* the key file of the storage collaborator
    saved      \* history: the key of the last successful SaveECDSA, if any

vars == <<call, file, saved>>

(***************************************************************************)
(* Bounds of the exploration.                                              *)
(***************************************************************************)
MaxKeyLen == 4      \* longest byte input handed to the decoders
MaxHexLen == 8      \* longest string handed to HexToECDSA
MaxFileLen == 7     \* longest pre-existing key file
IntSlack == 2       \* r and s range over -IntSlack .. N + IntSlack
MaxNonce == 2       \* largest nonce handed to CreateAddress

(***************************************************************************)
(* Widths.                                                                 *)
(***************************************************************************)
BitsPerByte == 2
BitSize == 6
HashLength == 32
AddressLength == 20

ByteBase == 2 ^ BitsPerByte
Byte == 0 .. (ByteBase - 1)
KeyBytes == BitSize \div BitsPerByte
HexBase == 2 ^ (BitsPerByte \div 2)

\* An absent pointer (nil) and a present one.
None == << >>
Some(v) == <<v>>

(***************************************************************************)
(* Errors, by kind.  The source returns them as messages.                  *)
(***************************************************************************)
NoErr == "nil"
InvalidKeyLength == "InvalidKeyLength"
KeyOutOfRange == "KeyOutOfRange"
KeyNonPositive == "KeyNonPositive"
InvalidPoint == "InvalidPoint"
InvalidHexString == "InvalidHexString"
IOError == "IOError"

(***************************************************************************)
(* The curve order and its integer half.                                   *)
(***************************************************************************)
secp256k1N == 31
secp256k1halfN == secp256k1N \div 2

(***************************************************************************)
(* big.Int conversions.                                                    *)
(***************************************************************************)
RECURSIVE SetBytes(_)
\* big.Int.SetBytes: the big-endian unsigned value of a byte sequence.
SetBytes(d) ==
    IF Len(d) = 0 THEN 0
    ELSE SetBytes(SubSeq(d, 1, Len(d) - 1)) * ByteBase + d[Len(d)]

RECURSIVE BigBytes(_)
\* big.Int.Bytes: the minimal big-endian bytes of a value >= 0 (empty for 0).
BigBytes(n) ==
    IF n = 0 THEN << >>
    ELSE Append(BigBytes(n \div ByteBase), n % ByteBase)

RECURSIVE BitLen(_)
\* big.Int.BitLen
BitLen(n) == IF n = 0 THEN 0 ELSE 1 + BitLen(n \div 2)

Zeros(n) == [i \in 1 .. n |-> 0]

\* math.PaddedBigBytes: big-endian, left-padded with zeros to n bytes.
PaddedBigBytes(bigint, n) ==
    IF BitLen(bigint) \div BitsPerByte >= n THEN BigBytes(bigint)
    ELSE Zeros(n - Len(BigBytes(bigint))) \o BigBytes(bigint)

(***************************************************************************)
(* The curve collaborator S256(): y^2 = x^3 + 7 over the field of P        *)
(* elements, base point (Gx, Gy) of order secp256k1N.                      *)
(***************************************************************************)
P == 43
CurveB == 7
Gx == 2
Gy == 12

Infinity == [X |-> None, Y |-> None]
Affine(x, y) == [X |-> Some(x), Y |-> Some(y)]

\* The inverse of a non-zero field element.
FieldInv(a) == CHOOSE b \in 1 .. (P - 1) : (a * b) % P = 1

IsOnCurve(x, y) == (y * y) % P = (x * x * x + CurveB) % P

\* The group law on points (Infinity is the identity).
PointAdd(p1, p2) ==
    IF p1.X = None THEN p2
    ELSE IF p2.X = None THEN p1
    ELSE LET x1 == p1.X[1]
             y1 == p1.Y[1]
             x2 == p2.X[1]
             y2 == p2.Y[1]
         IN  IF x1 = x2 /\ (y1 + y2) % P = 0 THEN Infinity
             ELSE LET l == IF x1 = x2
                           THEN (3 * x1 * x1 * FieldInv((2 * y1) % P)) % P
                           ELSE ((y2 - y1 + P) * FieldInv((x2 - x1 + P) % P)) % P
                      x3 == (l * l + 2 * P - x1 - x2) % P
                      y3 == (l * (x1 + P - x3) + P - y1) % P
                  IN  Affine(x3, y3)

RECURSIVE ScalarMult(_, _)
\* k times the point pt, by double and add.
ScalarMult(pt, k) ==
    IF k = 0 THEN Infinity
    ELSE LET half == ScalarMult(pt, k \div 2)
             dbl == PointAdd(half, half)
         IN  IF k % 2 = 1 THEN PointAdd(dbl, pt) ELSE dbl

\* The multiples of the base point, computed once.
BaseMultiples == [k \in 0 .. (secp256k1N - 1) |-> ScalarMult(Affine(Gx, Gy), k)]

\* Curve.ScalarBaseMult: the base point times the big-endian value of k; no
\* coordinates for the point at infinity.
ScalarBaseMult(k) == BaseMultiples[SetBytes(k) % secp256k1N]

\* elliptic.Marshal: the format tag, then X and Y at the coordinate width.
UncompressedTag == 4
Marshal(x, y) ==
    <<UncompressedTag>> \o PaddedBigBytes(x, KeyBytes) \o PaddedBigBytes(y, KeyBytes)

(***************************************************************************)
(* Hexadecimal text: a string is a sequence of characters, two digits per  *)
(* byte, high digit first.                                                 *)
(***************************************************************************)
HexDigits == <<"0", "1">>
BadChar == "g"
HexChars == {HexDigits[i] : i \in 1 .. HexBase} \cup {BadChar}

IsHexChar(c) == \E i \in 1 .. HexBase : HexDigits[i] = c
FromHexChar(c) == (CHOOSE i \in 1 .. HexBase : HexDigits[i] = c) - 1

\* hex.EncodeToString
HexEncodeToString(b) ==
    [i \in 1 .. 2 * Len(b) |->
        IF i % 2 = 1 THEN HexDigits[(b[(i + 1) \div 2] \div HexBase) + 1]
        ELSE HexDigits[(b[i \div 2] % HexBase) + 1]]

\* hex.DecodeString: fails on a character that is no digit and on an odd length.
HexDecodeString(s) ==
    IF (\E i \in 1 .. Len(s) : ~IsHexChar(s[i])) \/ Len(s) % 2 = 1
    THEN [bytes |-> << >>, err |-> InvalidHexString]
    ELSE [bytes |-> [i \in 1 .. Len(s) \div 2 |->
                        FromHexChar(s[2 * i - 1]) * HexBase + FromHexChar(s[2 * i])],
          err |-> NoErr]

(***************************************************************************)
(* The hash engine and the address type.                                   *)
(***************************************************************************)
RECURSIVE Absorb(_)
\* The sponge state after absorbing data (a stand-in for the permutation).
Absorb(data) ==
    IF Len(data) = 0 THEN 1
    ELSE (Absorb(SubSeq(data, 1, Len(data) - 1)) * 7 + data[Len(data)] + 1) % 1009

\* Keccak256: a digest of HashLength bytes, a function of the bytes written.
Keccak256(data) ==
    [i \in 1 .. HashLength |-> (Absorb(Append(data, i)) \div 3) % ByteBase]

\* b[n:]
SliceFrom(b, n) == SubSeq(b, n + 1, Len(b))

\* chain_common.BytesToAddress: the last AddressLength bytes, left-padded.
BytesToAddress(b) ==
    LET t == IF Len(b) > AddressLength THEN SliceFrom(b, Len(b) - AddressLength) ELSE b
    IN  Zeros(AddressLength - Len(t)) \o t

RECURSIVE Bytes256(_)
\* The minimal big-endian octets of an integer.
Bytes256(n) == IF n = 0 THEN << >> ELSE Append(Bytes256(n \div 256), n % 256)

\* rlp.EncodeToBytes of the list [address, nonce]; it has no failing case.
RlpEncodeToBytes(b, nonce) ==
    LET addr == <<128 + Len(b)>> \o b
        n == IF nonce = 0 THEN <<128>>
             ELSE IF nonce < 128 THEN <<nonce>>
             ELSE <<128 + Len(Bytes256(nonce))>> \o Bytes256(nonce)
    IN  [data |-> <<192 + Len(addr) + Len(n)>> \o addr \o n, err |-> NoErr]

\* CreateAddress: the encoder's error is discarded.
CreateAddress(b, nonce) ==
    LET enc == RlpEncodeToBytes(b, nonce)
    IN  BytesToAddress(SliceFrom(Keccak256(enc.data), 12))

(***************************************************************************)
(* The key codec.  A key is [D, X, Y]; a pointer to one is None or Some.   *)
(***************************************************************************)
Fail(e) == [priv |-> None, err |-> e]

\* Mutant: the upper range check is missing.
toECDSA_NoUpperCheck(d, strict) ==
    IF strict /\ BitsPerByte * Len(d) # BitSize THEN Fail(InvalidKeyLength)
    ELSE LET D == SetBytes(d)
         IN  IF D <= 0 THEN Fail(KeyNonPositive)
             ELSE LET pt == ScalarBaseMult(d)
                  IN  IF pt.X = None THEN Fail(InvalidPoint)
                      ELSE [priv |-> Some([D |-> D, X |-> pt.X, Y |-> pt.Y]),
                            err |-> NoErr]

\* Mutant: the range checks come before the length check.
toECDSA_RangeFirst(d, strict) ==
    LET D == SetBytes(d)
    IN  IF D >= secp256k1N THEN Fail(KeyOutOfRange)
        ELSE IF D <= 0 THEN Fail(KeyNonPositive)
        ELSE IF strict /\ BitsPerByte * Len(d) # BitSize THEN Fail(InvalidKeyLength)
        ELSE LET pt == ScalarBaseMult(d)
             IN  IF pt.X = None THEN Fail(InvalidPoint)
                 ELSE [priv |-> Some([D |-> D, X |-> pt.X, Y |-> pt.Y]),
                       err |-> NoErr]

\* Mutant: the upper range check is D > N.
toECDSA_UpperOffByOne(d, strict) ==
    IF strict /\ BitsPerByte * Len(d) # BitSize THEN Fail(InvalidKeyLength)
    ELSE LET D == SetBytes(d)
         IN  IF D > secp256k1N THEN Fail(KeyOutOfRange)
             ELSE IF D <= 0 THEN Fail(KeyNonPositive)
             ELSE LET pt == ScalarBaseMult(d)
                  IN  IF pt.X = None THEN Fail(InvalidPoint)
                      ELSE [priv |-> Some([D |-> D, X |-> pt.X, Y |-> pt.Y]),
                            err |-> NoErr]

\* Mutant: the length is enforced whatever the strict flag.
toECDSA_AlwaysStrict(d, strict) ==
    IF BitsPerByte * Len(d) # BitSize THEN Fail(InvalidKeyLength)
    ELSE LET D == SetBytes(d)
         IN  IF D >= secp256k1N THEN Fail(KeyOutOfRange)
             ELSE IF D <= 0 THEN Fail(KeyNonPositive)
             ELSE LET pt == ScalarBaseMult(d)
                  IN  IF pt.X = None THEN Fail(InvalidPoint)
                      ELSE [priv |-> Some([D |-> D, X |-> pt.X, Y |-> pt.Y]),
                            err |-> NoErr]

toECDSA(d, strict) ==
    IF strict /\ BitsPerByte * Len(d) # BitSize THEN Fail(InvalidKeyLength)
    ELSE LET D == SetBytes(d)
         IN  IF D >= secp256k1N THEN Fail(KeyOutOfRange)
             ELSE IF D <= 0 THEN Fail(KeyNonPositive)
             ELSE LET pt == ScalarBaseMult(d)
                  IN  IF pt.X = None THEN Fail(InvalidPoint)
                      ELSE [priv |-> Some([D |-> D, X |-> pt.X, Y |-> pt.Y]),
                            err |-> NoErr]

ToECDSA(d) == toECDSA(d, TRUE)

\* ToECDSAUnsafe: the lenient decoder's key alone; its error is discarded.
ToECDSAUnsafe(d) == toECDSA(d, FALSE).priv

\* Mutant: the scalar's minimal bytes, without padding.
FromECDSA_Unpadded(priv) ==
    IF priv = None THEN << >>
    ELSE BigBytes(priv[1].D)

FromECDSA(priv) ==
    IF priv = None THEN << >>
    ELSE PaddedBigBytes(priv[1].D, BitSize \div BitsPerByte)

FromECDSAPub(pub) ==
    IF pub = None \/ pub[1].X = None \/ pub[1].Y = None THEN << >>
    ELSE Marshal(pub[1].X[1], pub[1].Y[1])

\* Mutant: the decoding error is ignored.
HexToECDSA_DropsDecodeError(hexkey) == ToECDSA(HexDecodeString(hexkey).bytes)

HexToECDSA(hexkey) ==
    LET dec == HexDecodeString(hexkey)
    IN  IF dec.err # NoErr THEN Fail(InvalidHexString)
        ELSE ToECDSA(dec.bytes)

\* The number of characters LoadECDSA reads.
KeyFileLen == 6

NoFile == [exists |-> FALSE, data |-> << >>]
FileOf(s) == [exists |-> TRUE, data |-> s]

LoadECDSA(f) ==
    IF ~f.exists THEN Fail(IOError)
    ELSE IF Len(f.data) < KeyFileLen THEN Fail(IOError)
    ELSE LET dec == HexDecodeString(SubSeq(f.data, 1, KeyFileLen))
         IN  IF dec.err # NoErr THEN Fail(dec.err)
             ELSE ToECDSA(dec.bytes)

\* ioutil.WriteFile: the file holds the data, or the write fails: before the
\* file is opened (it is left as it was) or after it was truncated and part of
\* the data written.
WriteFile(f, data) ==
    {[file |-> FileOf(data), err |-> NoErr], [file |-> f, err |-> IOError]}
        \cup {[file |-> FileOf(SubSeq(data, 1, n)), err |-> IOError] : n \in 0 .. Len(data)}

\* Mutant: the text of the scalar's minimal bytes is written.
SaveECDSA_Unpadded(f, key) ==
    WriteFile(f, HexEncodeToString(IF key = None THEN << >> ELSE BigBytes(key[1].D)))

\* SaveECDSA: the outcomes of writing the key's hexadecimal text.
SaveECDSA(f, key) == WriteFile(f, HexEncodeToString(FromECDSA(key)))

(***************************************************************************)
(* The signature validator and the address of a public key.                *)
(***************************************************************************)
\* Mutant: the low-s bound is off by one.
ValidateSignatureValues_HalfOffByOne(v, r, s, homestead) ==
    IF r < 1 \/ s < 1 THEN FALSE
    ELSE IF homestead /\ s >= secp256k1halfN THEN FALSE
    ELSE r < secp256k1N /\ s < secp256k1N /\ (v = 0 \/ v = 1)

\* Mutant: the low-s rule is missing.
ValidateSignatureValues_NoLowS(v, r, s, homestead) ==
    IF r < 1 \/ s < 1 THEN FALSE
    ELSE r < secp256k1N /\ s < secp256k1N /\ (v = 0 \/ v = 1)

ValidateSignatureValues(v, r, s, homestead) ==
    IF r < 1 \/ s < 1 THEN FALSE
    ELSE IF homestead /\ s > secp256k1halfN THEN FALSE
    ELSE r < secp256k1N /\ s < secp256k1N /\ (v = 0 \/ v = 1)

\* PubkeyToAddress: pubBytes[1:] of an empty pubBytes is a run-time panic.
PubkeyToAddress(p) ==
    LET pubBytes == FromECDSAPub(Some(p))
    IN  IF Len(pubBytes) < 1 THEN [panic |-> TRUE, addr |-> << >>]
        ELSE [panic |-> FALSE,
              addr |-> BytesToAddress(SliceFrom(Keccak256(SliceFrom(pubBytes, 1)), 12))]

(***************************************************************************)
(* The inputs the calls are made with.                                     *)
(***************************************************************************)
SeqsUpTo(S, n) == UNION {[1 .. k -> S] : k \in 0 .. n}

ByteSeqs == SeqsUpTo(Byte, MaxKeyLen)
HexStrings == SeqsUpTo(HexChars, MaxHexLen)
Files == {NoFile} \cup {FileOf(t) : t \in SeqsUpTo(HexChars, MaxFileLen)}

\* The keys the decoder constructs, and pointers to them.
ValidKeys == {toECDSA(d, TRUE).priv[1] : d \in {b \in [1 .. KeyBytes -> Byte] : toECDSA(b, TRUE).err = NoErr}}
KeyPtrs == {None} \cup {Some(k) : k \in ValidKeys}

\* Public keys: the points of the curve, and keys with an absent coordinate.
PubKeys ==
    {BaseMultiples[k] : k \in 1 .. (secp256k1N - 1)}
        \cup {Infinity, [X |-> None, Y |-> Some(Gy)], [X |-> Some(Gx), Y |-> None]}

VValues == {0, 1, 2, 27, 28, 255}
SigInts == (0 - IntSlack) .. (secp256k1N + IntSlack)
Addresses == {Zeros(AddressLength)} \cup {PubkeyToAddress(BaseMultiples[k]).addr : k \in 1 .. 3}

PureRequests ==
    [op : {"ValidateSignatureValues"}, v : VValues, r : SigInts, s : SigInts,
     homestead : BOOLEAN, done : {FALSE}]
        \cup [op : {"toECDSA"}, d : ByteSeqs, strict : BOOLEAN, done : {FALSE}]
        \cup [op : {"ToECDSA", "ToECDSAUnsafe"}, d : ByteSeqs, done : {FALSE}]
        \cup [op : {"HexToECDSA"}, hexkey : HexStrings, done : {FALSE}]
        \cup [op : {"FromECDSA"}, priv : KeyPtrs, done : {FALSE}]
        \cup [op : {"FromECDSAPub", "PubkeyToAddress"}, pub : PubKeys, done : {FALSE}]
        \cup [op : {"CreateAddress"}, b : Addresses, nonce : 0 .. MaxNonce, done : {FALSE}]

StorageRequests ==
    [op : {"LoadECDSA"}, done : {FALSE}]
        \cup [op : {"SaveECDSA"}, key : KeyPtrs, done : {FALSE}]

StorageOps == {"LoadECDSA", "SaveECDSA"}

\* The call, returned with result ret.
Done(c, ret) == [done |-> TRUE, ret |-> ret] @@ c

Running(op) == call.op = op /\ ~call.done
Returned(op) == call.op = op /\ call.done

(***************************************************************************)
(* The state machine.  The first call and, for a storage call, the file it *)
(* finds are drawn by Init; storage calls may follow one another.          *)
(***************************************************************************)
Init ==
    /\ call \in PureRequests \cup StorageRequests
    /\ file \in IF call.op \in StorageOps THEN Files ELSE {NoFile}
    /\ saved = None

ValidateSignatureValuesStep ==
    /\ Running("ValidateSignatureValues")
    /\ call' = Done(call, ValidateSignatureValues(call.v, call.r, call.s, call.homestead))
    /\ UNCHANGED <<file, saved>>

toECDSAStep ==
    /\ Running("toECDSA")
    /\ call' = Done(call, toECDSA(call.d, call.strict))
    /\ UNCHANGED <<file, saved>>

ToECDSAStep ==
    /\ Running("ToECDSA")
    /\ call' = Done(call, ToECDSA(call.d))
    /\ UNCHANGED <<file, saved>>

ToECDSAUnsafeStep ==
    /\ Running("ToECDSAUnsafe")
    /\ call' = Done(call, ToECDSAUnsafe(call.d))
    /\ UNCHANGED <<file, saved>>

HexToECDSAStep ==
    /\ Running("HexToECDSA")
    /\ call' = Done(call, HexToECDSA(call.hexkey))
    /\ UNCHANGED <<file, saved>>

FromECDSAStep ==
    /\ Running("FromECDSA")
    /\ call' = Done(call, FromECDSA(call.priv))
    /\ UNCHANGED <<file, saved>>

FromECDSAPubStep ==
    /\ Running("FromECDSAPub")
    /\ call' = Done(call, FromECDSAPub(Some(call.pub)))
    /\ UNCHANGED <<file, saved>>

PubkeyToAddressStep ==
    /\ Running("PubkeyToAddress")
    /\ call' = Done(call, PubkeyToAddress(call.pub))
    /\ UNCHANGED <<file, saved>>

CreateAddressStep ==
    /\ Running("CreateAddress")
    /\ call' = Done(call, CreateAddress(call.b, call.nonce))
    /\ UNCHANGED <<file, saved>>

LoadECDSAStep ==
    /\ Running("LoadECDSA")
    /\ call' = Done(call, LoadECDSA(file))
    /\ UNCHANGED <<file, saved>>

SaveECDSAStep ==
    /\ Running("SaveECDSA")
    /\ \E out \in SaveECDSA(file, call.key) :
        /\ call' = Done(call, out.err)
        /\ file' = out.file
        /\ saved' = IF out.err = NoErr THEN Some(call.key)
                    ELSE IF out.file = file THEN saved
                    ELSE None

\* The caller of a storage operation makes its next storage call.
NextStorageCall ==
    /\ call.done
    /\ call.op \in StorageOps
    /\ call' \in StorageRequests
    /\ UNCHANGED <<file, saved>>

Next ==
    \/ ValidateSignatureValuesStep
    \/ toECDSAStep
    \/ ToECDSAStep
    \/ ToECDSAUnsafeStep
    \/ HexToECDSAStep
    \/ FromECDSAStep
    \/ FromECDSAPubStep
    \/ PubkeyToAddressStep
    \/ CreateAddressStep
    \/ LoadECDSAStep
    \/ SaveECDSAStep
    \/ NextStorageCall

Spec == Init /\ [][Next]_vars

(***************************************************************************)
(* The properties.                                                         *)
(***************************************************************************)
Value(d) == SetBytes(d)
InRange(x) == 1 <= x /\ x < secp256k1N

\* C1: ValidateSignatureValues returns true if and only if 1 <= r < N,
\* 1 <= s < N, v is 0 or 1, and (homestead is false or s <= N/2).
C1_ValidIff ==
    Returned("ValidateSignatureValues") =>
        (call.ret <=>
            /\ InRange(call.r)
            /\ InRange(call.s)
            /\ call.v \in {0, 1}
            /\ (~call.homestead \/ call.s <= secp256k1N \div 2))

\* s = N/2 + 1 is rejected under homestead for the low-s rule alone.
C1_Witness ==
    /\ Returned("ValidateSignatureValues")
    /\ call.homestead /\ call.v = 0 /\ call.r = 1
    /\ call.s = secp256k1N \div 2 + 1
    /\ ~call.ret

\* C2: for v in {0,1} and r, s in [1, N), under homestead exactly one of
\* (v, r, s) and its twin (v, r, N - s) is accepted; without homestead both are.
C2_NoMalleableTwin ==
    (/\ Returned("ValidateSignatureValues")
     /\ call.v \in {0, 1} /\ InRange(call.r) /\ InRange(call.s)) =>
        LET twin == ValidateSignatureValues(call.v, call.r, secp256k1N - call.s,
                                            call.homestead)
        IN  IF call.homestead THEN call.ret # twin ELSE call.ret /\ twin

\* A high s is rejected under homestead while its twin is accepted.
C2_Witness ==
    /\ Returned("ValidateSignatureValues")
    /\ call.homestead /\ call.v = 1 /\ call.r = secp256k1N - 1
    /\ call.s = secp256k1N - 1
    /\ ~call.ret
    /\ ValidateSignatureValues(call.v, call.r, secp256k1N - call.s, TRUE)

\* C3: a key toECDSA returns without error has 0 < D < N and the public point
\* D times the base point, which is not the point at infinity; when the value
\* of the bytes is 0 or >= N the call returns an error and no key.
C3_KeyInvariant ==
    Returned("toECDSA") =>
        /\ call.ret.err = NoErr =>
            /\ call.ret.priv # None
            /\ InRange(call.ret.priv[1].D)
            /\ call.ret.priv[1].D = Value(call.d)
            /\ call.ret.priv[1].X # None /\ call.ret.priv[1].Y # None
            /\ [X |-> call.ret.priv[1].X, Y |-> call.ret.priv[1].Y]
                   = ScalarMult(Affine(Gx, Gy), call.ret.priv[1].D)
            /\ IsOnCurve(call.ret.priv[1].X[1], call.ret.priv[1].Y[1])
        /\ call.ret.err # NoErr => call.ret.priv = None
        /\ (Value(call.d) = 0 \/ Value(call.d) >= secp256k1N) =>
            call.ret.err # NoErr /\ call.ret.priv = None

\* The lenient decoder returns the key of the largest scalar from an input
\* longer than the curve width.
C3_Witness ==
    /\ Returned("toECDSA")
    /\ ~call.strict /\ Len(call.d) > KeyBytes
    /\ call.ret.err = NoErr
    /\ call.ret.priv[1].D = secp256k1N - 1

\* C4: the strict decoder fails with InvalidKeyLength on every input whose
\* length is not the curve width, whatever its value, and so does HexToECDSA
\* on a well-formed hexadecimal string of another length than twice that.
C4_LengthFirst ==
    /\ (Returned("toECDSA") /\ call.strict /\ Len(call.d) # KeyBytes) =>
            call.ret = Fail(InvalidKeyLength)
    /\ (Returned("ToECDSA") /\ Len(call.d) # KeyBytes) =>
            call.ret = Fail(InvalidKeyLength)
    /\ (/\ Returned("HexToECDSA")
        /\ \A i \in 1 .. Len(call.hexkey) : IsHexChar(call.hexkey[i])
        /\ Len(call.hexkey) % 2 = 0
        /\ Len(call.hexkey) # 2 * KeyBytes) =>
            call.ret = Fail(InvalidKeyLength)

\* An input one byte too long whose value is >= N reports the length.
C4_Witness ==
    /\ Returned("toECDSA")
    /\ call.strict /\ Len(call.d) = KeyBytes + 1
    /\ Value(call.d) >= secp256k1N
    /\ call.ret.err = InvalidKeyLength

\* C5: on input that passes the length rule, toECDSA fails with KeyOutOfRange
\* exactly when the value is >= N and with KeyNonPositive exactly when it is 0.
C5_RangeErrors ==
    (Returned("toECDSA") /\ (~call.strict \/ Len(call.d) = KeyBytes)) =>
        /\ call.ret.err = KeyOutOfRange <=> Value(call.d) >= secp256k1N
        /\ call.ret.err = KeyNonPositive <=> Value(call.d) = 0
        /\ call.ret.err \in {KeyOutOfRange, KeyNonPositive} => call.ret.priv = None

\* The value N itself, at the curve width, is out of range.
C5_Witness ==
    /\ Returned("toECDSA")
    /\ call.strict /\ Len(call.d) = KeyBytes
    /\ Value(call.d) = secp256k1N
    /\ call.ret.err = KeyOutOfRange

\* C6: for 0 < d < N given at the curve width, ToECDSA succeeds, FromECDSA of
\* the key is the input (at the curve width), and decoding that again yields
\* the same scalar.
C6_RoundTrip ==
    (Returned("ToECDSA") /\ Len(call.d) = KeyBytes /\ InRange(Value(call.d))) =>
        /\ call.ret.err = NoErr
        /\ Len(FromECDSA(call.ret.priv)) = KeyBytes
        /\ FromECDSA(call.ret.priv) = call.d
        /\ ToECDSA(FromECDSA(call.ret.priv)).err = NoErr
        /\ ToECDSA(FromECDSA(call.ret.priv)).priv[1].D = Value(call.d)

\* The scalar 1, whose bytes are all padding but the last.
C6_Witness ==
    /\ Returned("ToECDSA")
    /\ Len(call.d) = KeyBytes /\ Value(call.d) = 1
    /\ call.ret.err = NoErr
    /\ FromECDSA(call.ret.priv) = call.d

\* C7: the lenient decoder accepts an input one byte short of the curve width
\* with value in (0, N) and returns the key the strict decoder returns on that
\* input behind a zero byte; its result depends on the value of the bytes alone.
C7_LenientByValue ==
    (Returned("toECDSA") /\ ~call.strict) =>
        /\ (Len(call.d) = KeyBytes - 1 /\ InRange(Value(call.d))) =>
            /\ call.ret.err = NoErr
            /\ call.ret = toECDSA(<<0>> \o call.d, TRUE)
        /\ \A e \in ByteSeqs : Value(e) = Value(call.d) => toECDSA(e, FALSE) = call.ret

\* A short input is accepted.
C7_Witness ==
    /\ Returned("toECDSA")
    /\ ~call.strict /\ Len(call.d) = KeyBytes - 1
    /\ call.d[1] # 0
    /\ call.ret.err = NoErr
    /\ toECDSA(<<0>> \o call.d, TRUE).priv = call.ret.priv

\* C8: PubkeyToAddress returns AddressLength bytes and does not panic, for
\* every public key, one with an absent coordinate included.
C8_AddressAlways ==
    Returned("PubkeyToAddress") =>
        ~call.ret.panic /\ Len(call.ret.addr) = AddressLength

(***************************************************************************)
(* C9.  The error each call's steps detect, by the rules of the decoder,   *)
(* and the error value its result carries.                                 *)
(***************************************************************************)
DecodeError(d, strict) ==
    IF strict /\ Len(d) # KeyBytes THEN InvalidKeyLength
    ELSE IF Value(d) >= secp256k1N THEN KeyOutOfRange
    ELSE IF Value(d) = 0 THEN KeyNonPositive
    ELSE NoErr

HexError(t) ==
    IF (\E i \in 1 .. Len(t) : ~IsHexChar(t[i])) \/ Len(t) % 2 = 1
    THEN InvalidHexString
    ELSE DecodeError(HexDecodeString(t).bytes, TRUE)

Detected ==
    CASE call.op = "toECDSA" -> DecodeError(call.d, call.strict)
      [] call.op = "ToECDSA" -> DecodeError(call.d, TRUE)
      [] call.op = "ToECDSAUnsafe" -> DecodeError(call.d, FALSE)
      [] call.op = "HexToECDSA" -> HexError(call.hexkey)
      [] call.op = "LoadECDSA" ->
            IF ~file.exists \/ Len(file.data) < KeyFileLen THEN IOError
            ELSE HexError(SubSeq(file.data, 1, KeyFileLen))
      [] call.op = "CreateAddress" -> RlpEncodeToBytes(call.b, call.nonce).err
      [] OTHER -> NoErr

\* The error value handed to the caller; none where the result has no error.
HandedBack ==
    CASE call.op \in {"toECDSA", "ToECDSA", "HexToECDSA", "LoadECDSA"} -> call.ret.err
      [] call.op = "SaveECDSA" -> call.ret
      [] OTHER -> NoErr

DecoderOps == {"toECDSA", "ToECDSA", "ToECDSAUnsafe", "HexToECDSA", "LoadECDSA"}

\* C9 as stated: every entry point that runs the decoder, and CreateAddress,
\* hands its caller the error of the step that failed.
C9_EveryErrorHandedBack ==
    (call.done /\ call.op \in DecoderOps \cup {"CreateAddress"}) =>
        HandedBack = Detected

\* C9 as amended: ToECDSA, HexToECDSA, LoadECDSA and toECDSA hand back the error
\* of the step that failed, and no key with it; ToECDSAUnsafe hands back no
\* error value, and an absent key exactly when the decoder failed; CreateAddress
\* has no failing step; the two projections return the empty result for absent
\* input.
C9_ErrorsHandedBackButLenient ==
    /\ (call.done /\ call.op \in DecoderOps \ {"ToECDSAUnsafe"}) =>
            /\ HandedBack = Detected
            /\ call.ret.priv = None <=> Detected # NoErr
    /\ Returned("ToECDSAUnsafe") => (call.ret = None <=> Detected # NoErr)
    /\ Returned("CreateAddress") => (Detected = NoErr /\ Len(call.ret) = AddressLength)
    /\ (Returned("FromECDSA") /\ call.priv = None) => call.ret = << >>
    /\ (Returned("FromECDSAPub") /\ (call.pub.X = None \/ call.pub.Y = None)) =>
            call.ret = << >>

\* The lenient entry point returns an absent key, and no error, for a value >= N.
C9_Witness ==
    /\ Returned("ToECDSAUnsafe")
    /\ Value(call.d) >= secp256k1N
    /\ call.ret = None

\* C10: after SaveECDSA of a valid key succeeds the file holds KeyFileLen
\* hexadecimal digits and LoadECDSA returns a key with the same scalar; saving
\* an absent key writes the empty string without error; LoadECDSA of a file
\* shorter than KeyFileLen fails and returns no key; what follows the first
\* KeyFileLen characters is ignored.
C10_SaveThenLoad ==
    /\ (Returned("SaveECDSA") /\ call.ret = NoErr) =>
            /\ saved = Some(call.key)
            /\ file.exists
            /\ call.key = None => file.data = << >>
            /\ call.key # None =>
                /\ Len(file.data) = KeyFileLen
                /\ \A i \in 1 .. Len(file.data) : IsHexChar(file.data[i])
    /\ (Returned("LoadECDSA") /\ saved # None /\ saved[1] # None) =>
            /\ call.ret.err = NoErr
            /\ call.ret.priv[1].D = saved[1][1].D
    /\ (Returned("LoadECDSA") /\ file.exists /\ Len(file.data) < KeyFileLen) =>
            call.ret.err # NoErr /\ call.ret.priv = None
    /\ (Returned("LoadECDSA") /\ saved = Some(None)) =>
            call.ret.err # NoErr /\ call.ret.priv = None
    /\ (Returned("LoadECDSA") /\ Len(file.data) > KeyFileLen) =>
            call.ret = LoadECDSA(FileOf(SubSeq(file.data, 1, KeyFileLen)))

\* A load that follows the save of the key of scalar 1.
C10_Witness ==
    /\ Returned("LoadECDSA")
    /\ saved # None /\ saved[1] # None
    /\ saved[1][1].D = 1
    /\ call.ret.err = NoErr
    /\ call.ret.priv[1].D = 1

====
